---- MODULE Spec2Model ----
(***************************************************************************)
(* Model of the LoRaWAN network-side ADR component (adr-component.cc/.h).  *)
(*                                                                         *)
(* One end device is modelled (the component keeps no state of its own, so *)
(* devices are independent).  The state is the part of EndDeviceStatus the *)
(* component reads and writes; the actions are the three hooks of the      *)
(* component and the steps of the surrounding controller pipeline that     *)
(* call them once per uplink/downlink cycle.                               *)
(*                                                                         *)
(* Numbers.  The code computes in double.  A double is modelled as an      *)
(* integer count of 1/Scale dB, Scale chosen so that every division the    *)
(* code performs on the modelled inputs (by a gateway count, by            *)
(* historyRange) is exact; NaN is a separate value.  Integers of the code  *)
(* (spreading factor, steps, data rate) are plain integers.                *)
(***************************************************************************)
EXTENDS Integers, Sequences, FiniteSets

VARIABLES
    packetList,   \* status->GetReceivedPacketList(): one gateway list per packet, most recent last
    adr,          \* ADR bit of the frame header of the last packet received from the device
    sf,           \* status->GetFirstReceiveWindowSpreadingFactor()
    txPower,      \* status->GetMac()->GetTransmissionPower(), dBm
    reply,        \* status->m_reply
    dec,          \* locals of the last AdrImplementation call of this cycle
    pc,           \* position of the controller pipeline in the device's cycle
    cycles        \* number of uplinks handled so far

vars == <<packetList, adr, sf, txPower, reply, dec, pc, cycles>>

----------------------------------------------------------------------------
(* Configuration constants of the component (adr-component.h).             *)

tpAveraging == TRUE

historyRange == 20

historyAveraging == TRUE

min_spreadingFactor == 7

min_transmissionPower == 2

max_transmissionPower == 14

offset == 10

B == 125000

NF == 6

----------------------------------------------------------------------------
(* Bounds of the model.                                                    *)

\* Uplink/downlink cycles explored from each initial state.
MaxCycles == 2

\* Spreading factors the collaborator may hand over: the legal 7..12 and
\* one illegal value on each side.
SfInputs == (min_spreadingFactor - 1) .. (min_spreadingFactor + 6)

\* Transmission powers the device's MAC may report.
TxPowerInputs == min_transmissionPower .. max_transmissionPower

\* Gateway lists of a received packet: received powers in dBm, one per
\* gateway that reported the packet (none, one or two gateways).
GwLists == {<< >>, <<-80>>, <<-110, -80>>}

\* Step counts the step policy is examined on directly: -MaxSteps .. MaxSteps.
MaxSteps == 6

\* Amounts, in dB, by which the monotonicity check raises every received power.
Shifts == {1, 10, 60}

\* History lengths at the start: one and two packets short of historyRange.
InitLengths == {historyRange - 2, historyRange - 1}

----------------------------------------------------------------------------
(* Doubles.                                                                *)

\* 1 dB in model units.  1000 keeps the milli-dB of 10*log10(B); the factor
\* historyRange * 2 makes the divisions by the gateway count (1 or 2) and
\* by historyRange exact.
Scale == 1000 * historyRange * 2

\* Not-a-number: the result of 0.0 / 0.  Outside the range of every finite
\* value of the model.
NaN == 0 - 1000000000

\* INT_MIN of a 32-bit int.
IntMin == 0 - 2147483647 - 1

FAdd(a, b) == IF a = NaN \/ b = NaN THEN NaN ELSE a + b

FSub(a, b) == IF a = NaN \/ b = NaN THEN NaN ELSE a - b

\* a / n for a count n.  The only zero divisor of the code is an empty
\* gateway list, where the numerator is the empty sum 0.0: 0.0 / 0 is NaN.
FDiv(a, n) == IF a = NaN \/ n = 0 THEN NaN ELSE a \div n

\* a > b of doubles: false when either is NaN.
FGt(a, b) == a # NaN /\ b # NaN /\ a > b

\* 10 * log10(B) for B = 125000 is 50.969100...
TenLog10B == IF B = 125000 THEN 50969 * (Scale \div 1000) ELSE NaN

----------------------------------------------------------------------------
(* The pure functions of the component.                                    *)

\* double treshold[6], indexed 0..5.
treshold == << -200, -175, -150, -125, -100, -75 >>

\* As defined in adr-component.cc: int in, int out, no range check.
SfToDr(s) == s - 7

TxPowerToSNR(transmissionPower) ==
    FAdd(transmissionPower, 174 * Scale - TenLog10B - NF * Scale)

RECURSIVE MaxTxLoop(_, _, _)
MaxTxLoop(gwList, i, max) ==
    IF i > Len(gwList) THEN max
    ELSE MaxTxLoop(gwList, i + 1,
                   IF FGt(gwList[i] * Scale, max) THEN gwList[i] * Scale ELSE max)

GetMaxTxFromGateways(gwList) ==
    MaxTxLoop(gwList, 1, min_transmissionPower * Scale)

RECURSIVE SumTxLoop(_, _, _)
SumTxLoop(gwList, i, sum) ==
    IF i > Len(gwList) THEN sum
    ELSE SumTxLoop(gwList, i + 1, FAdd(sum, gwList[i] * Scale))

GetAverageTxFromGateways(gwList) ==
    FDiv(SumTxLoop(gwList, 1, 0), Len(gwList))

GetReceivedPower(gwList) ==
    IF tpAveraging
    THEN GetAverageTxFromGateways(gwList)
    ELSE TxPowerToSNR(GetMaxTxFromGateways(gwList))

\* The packet the loops visit at iteration i (0-based), starting at rbegin().
PacketAt(pl, i) == pl[Len(pl) - i]

RECURSIVE MaxSNRLoop(_, _, _, _)
MaxSNRLoop(pl, range, i, max) ==
    IF i >= range THEN max
    ELSE LET m_SNR == TxPowerToSNR(GetReceivedPower(PacketAt(pl, i)))
         IN  MaxSNRLoop(pl, range, i + 1, IF FGt(m_SNR, max) THEN m_SNR ELSE max)

GetMaxSNR(pl, range) ==
    MaxSNRLoop(pl, range, 0, TxPowerToSNR(min_transmissionPower * Scale))

\* The loop of GetAverageSNR: <<sum, m_SNR>> after iterations i .. range-1.
RECURSIVE AverageSNRLoop(_, _, _, _, _)
AverageSNRLoop(pl, range, i, sum, m_SNR) ==
    IF i >= range THEN <<sum, m_SNR>>
    ELSE LET m == TxPowerToSNR(GetReceivedPower(PacketAt(pl, i)))
         IN  AverageSNRLoop(pl, range, i + 1, FAdd(sum, m), m)

\* m_SNR is uninitialised before the loop; range >= 1 always assigns it.
GetAverageSNR(pl, range) ==
    LET r == AverageSNRLoop(pl, range, 0, 0, NaN)
    IN  FDiv(r[2], range)

\* treshold[i] in model units; the table holds tenths of a dB.  An index
\* outside 0..5 reads past the array: whatever double lies there.
TresholdAt(i, oob) ==
    IF i \in 0 .. 5 THEN treshold[i + 1] * (Scale \div 10) ELSE oob

\* while(steps > 0 && spreadingFactor > min_spreadingFactor)
RECURSIVE SfLoop(_, _)
SfLoop(steps, spreadingFactor) ==
    IF steps > 0 /\ spreadingFactor > min_spreadingFactor
    THEN SfLoop(steps - 1, spreadingFactor - 1)
    ELSE <<steps, spreadingFactor>>

\* while(steps > 0 && transmissionPower > min_transmissionPower)
RECURSIVE TpDownLoop(_, _)
TpDownLoop(steps, transmissionPower) ==
    IF steps > 0 /\ transmissionPower > min_transmissionPower
    THEN TpDownLoop(steps - 1, transmissionPower - 3)
    ELSE <<steps, transmissionPower>>

\* while(steps < 0 && transmissionPower < max_transmissionPower)
RECURSIVE TpUpLoop(_, _)
TpUpLoop(steps, transmissionPower) ==
    IF steps < 0 /\ transmissionPower < max_transmissionPower
    THEN TpUpLoop(steps + 1, transmissionPower + 3)
    ELSE <<steps, transmissionPower>>

\* Mutant: transmission power is lowered before the spreading factor.
StepPolicy_PowerFirst(steps, spreadingFactor, transmissionPower) ==
    LET b == TpDownLoop(steps, transmissionPower)
        a == SfLoop(b[1], spreadingFactor)
        c == TpUpLoop(a[1], b[2])
    IN  [spreadingFactor |-> a[2], transmissionPower |-> c[2]]

\* The three loops in the order of the code.
StepPolicy(steps, spreadingFactor, transmissionPower) ==
    LET a == SfLoop(steps, spreadingFactor)
        b == TpDownLoop(a[1], transmissionPower)
        c == TpUpLoop(b[1], b[2])
    IN  [spreadingFactor |-> a[2], transmissionPower |-> c[2]]

\* Outcomes of the two undefined operations of the code, fixed by the build:
\* oob is the double read by treshold[i] for i outside 0..5, nan the int
\* that the conversion of a NaN double yields.
UbOutcomes == [oob : {0, 0 - 40 * Scale}, nan : {IntMin, 0}]

\* Mutant: the margin is taken with the wrong sign.
StepsOf_Negated(margin_SNR, ub) ==
    IF margin_SNR = NaN THEN ub.nan ELSE (0 - margin_SNR) \div (3 * Scale)

\* margin_SNR / 3 floored and converted to int.
StepsOf(margin_SNR, ub) ==
    IF margin_SNR = NaN THEN ub.nan ELSE margin_SNR \div (3 * Scale)

\* The estimate of the SNR of the device over its history.
EstimatedSNR(pl) ==
    IF historyAveraging
    THEN GetAverageSNR(pl, historyRange)
    ELSE GetMaxSNR(pl, historyRange)

\* AdrImplementation after the estimate m_SNR is known: its locals at return.
AdrDecision(m_SNR, spreadingFactor, transmissionPower, ub) ==
    LET idx        == SfToDr(spreadingFactor)
        req_SNR    == TresholdAt(idx, ub.oob)
        margin_SNR == FSub(FSub(m_SNR, req_SNR), offset * Scale)
        steps      == StepsOf(margin_SNR, ub)
        final      == StepPolicy(steps, spreadingFactor, transmissionPower)
    IN  [ran                |-> TRUE,
         m_SNR              |-> m_SNR,
         idx                |-> idx,
         steps              |-> steps,
         spreadingFactor    |-> final.spreadingFactor,
         newDataRate        |-> SfToDr(final.spreadingFactor),
         newTxPower         |-> final.transmissionPower]

AdrImplementation(pl, spreadingFactor, transmissionPower, ub) ==
    AdrDecision(EstimatedSNR(pl), spreadingFactor, transmissionPower, ub)

----------------------------------------------------------------------------
(* State.                                                                  *)

\* m_reply before any component has touched it.
EmptyReply ==
    [needsReply |-> FALSE, cmds |-> << >>, direction |-> "none", mtype |-> "none"]

\* dec when AdrImplementation has not run in this cycle.
NoDecision ==
    [ran |-> FALSE, m_SNR |-> 0, idx |-> 0, steps |-> 0,
     spreadingFactor |-> 0, newDataRate |-> 0, newTxPower |-> 0]

LinkAdrReq(dataRate, power) ==
    [dataRate |-> dataRate, txPower |-> power,
     enabledChannels |-> <<1, 2, 3>>, repetitions |-> 1]

Init ==
    /\ \E n \in InitLengths, gw \in GwLists : packetList = [i \in 1 .. n |-> gw]
    /\ adr = FALSE
    /\ sf \in SfInputs
    /\ txPower \in TxPowerInputs
    /\ reply = EmptyReply
    /\ dec = NoDecision
    /\ pc = "idle"
    /\ cycles = 0

\* The collaborator records an uplink of the device: the packet joins the
\* history with the gateways that received it, and a fresh reply is prepared.
Uplink ==
    /\ pc = "idle"
    /\ cycles < MaxCycles
    /\ \E gw \in GwLists, a \in BOOLEAN :
          /\ packetList' = Append(packetList, gw)
          /\ adr' = a
    /\ reply' = EmptyReply
    /\ dec' = NoDecision
    /\ pc' = "uplink"
    /\ cycles' = cycles + 1
    /\ UNCHANGED <<sf, txPower>>

OnReceivedPacket ==
    /\ pc = "uplink"
    /\ pc' = "gathered"
    /\ UNCHANGED <<packetList, adr, sf, txPower, reply, dec, cycles>>

\* Mutant: the ADR request bit of the uplink is not looked at.
BeforeSendingReply_IgnoresAdrBit ==
    /\ pc = "gathered"
    /\ pc' = "replying"
    /\ IF ~(Len(packetList) < historyRange)
       THEN \E ub \in UbOutcomes :
              LET d == AdrImplementation(packetList, sf, txPower, ub)
              IN  /\ dec' = d
                  /\ reply' = [needsReply |-> TRUE,
                               cmds       |-> Append(reply.cmds,
                                                LinkAdrReq(d.newDataRate, d.newTxPower)),
                               direction  |-> "downlink",
                               mtype      |-> "UNCONFIRMED_DATA_DOWN"]
       ELSE UNCHANGED <<reply, dec>>
    /\ UNCHANGED <<packetList, adr, sf, txPower, cycles>>

BeforeSendingReply ==
    /\ pc = "gathered"
    /\ pc' = "replying"
    /\ IF adr /\ ~(Len(packetList) < historyRange)
       THEN \E ub \in UbOutcomes :
              LET d == AdrImplementation(packetList, sf, txPower, ub)
              IN  /\ dec' = d
                  /\ reply' = [needsReply |-> TRUE,
                               cmds       |-> Append(reply.cmds,
                                                LinkAdrReq(d.newDataRate, d.newTxPower)),
                               direction  |-> "downlink",
                               mtype      |-> "UNCONFIRMED_DATA_DOWN"]
       ELSE UNCHANGED <<reply, dec>>
    /\ UNCHANGED <<packetList, adr, sf, txPower, cycles>>

\* Mutant: a failed reply stages the command again.
OnFailedReply_Restages ==
    /\ pc = "replying"
    /\ reply.needsReply
    /\ pc' = "idle"
    /\ reply' = [reply EXCEPT !.cmds = Append(@, reply.cmds[1])]
    /\ UNCHANGED <<packetList, adr, sf, txPower, dec, cycles>>

OnFailedReply ==
    /\ pc = "replying"
    /\ reply.needsReply
    /\ pc' = "idle"
    /\ UNCHANGED <<packetList, adr, sf, txPower, reply, dec, cycles>>

\* The pipeline's end of a cycle when the reply went out, or none was needed.
EndCycle ==
    /\ pc = "replying"
    /\ pc' = "idle"
    /\ UNCHANGED <<packetList, adr, sf, txPower, reply, dec, cycles>>

Next ==
    \/ Uplink
    \/ OnReceivedPacket
    \/ BeforeSendingReply
    \/ OnFailedReply
    \/ EndCycle

Spec == Init /\ [][Next]_vars

----------------------------------------------------------------------------
(* Properties.                                                             *)

\* The hook BeforeSendingReply has just run in this step.
BeforeSendingReplyStep == pc = "gathered" /\ pc' = "replying"

\* The decision algorithm has run in the current cycle.
Decided == pc = "replying" /\ dec.ran

LegalSf == sf \in min_spreadingFactor .. 12

\* The command staged in the current cycle.
StagedCmd == reply.cmds[Len(reply.cmds)]

\* The iterations of the history window, 0 being the most recent packet.
Window == 0 .. (historyRange - 1)

\* Every packet of the window was reported by at least one gateway.
WellFormedWindow ==
    \A i \in Window : Len(PacketAt(packetList, i)) > 0

\* C1: BeforeSendingReply sets "needs reply" and stages a command only if the
\* ADR bit of the latest uplink is set and the history holds at least
\* historyRange packets; otherwise it leaves the needs-reply flag, the staged
\* reply and the device's parameters unchanged.
C1_RunsOnlyOnRequestAndHistory ==
    [][BeforeSendingReplyStep =>
         /\ (reply'.needsReply \/ reply'.cmds # reply.cmds)
               => (adr /\ Len(packetList) >= historyRange)
         /\ (~adr \/ Len(packetList) < historyRange)
               => (reply' = reply /\ sf' = sf /\ txPower' = txPower)]_vars

\* C1 witness: the hook ran on a full history whose latest uplink did not
\* request ADR, and no reply is needed.
C1_Witness ==
    /\ pc = "replying"
    /\ ~adr
    /\ Len(packetList) >= historyRange
    /\ ~reply.needsReply

\* C2 (as claimed): after a decision on a device with spreading factor in
\* 7..12 and transmission power in 2..14 dBm, the final spreading factor is in
\* 7..12 and the final transmission power is in 2..14 dBm, a whole number of
\* 3 dB steps away from the prior one.
C2_FinalWithinBounds ==
    (/\ Decided
     /\ WellFormedWindow
     /\ LegalSf
     /\ txPower \in min_transmissionPower .. max_transmissionPower)
        => /\ dec.spreadingFactor \in min_spreadingFactor .. 12
           /\ dec.newTxPower \in min_transmissionPower .. max_transmissionPower
           /\ (dec.newTxPower - txPower) % 3 = 0

\* The sum the loop of GetAverageSNR accumulates, divided by the window size.
WindowMean(pl) == FDiv(AverageSNRLoop(pl, historyRange, 0, 0, NaN)[1], historyRange)

\* C3 (as claimed): under the average history policy the estimated SNR is the
\* arithmetic mean of the per-packet SNRs of the last historyRange packets.
C3_EstimateIsMean ==
    (Decided /\ WellFormedWindow /\ LegalSf /\ historyAveraging)
        => dec.m_SNR = WindowMean(packetList)

\* C4 (as claimed): the data rate used to look up the required SNR and to fill
\* the staged command is 12 minus the spreading factor.
C4_DataRateIsTwelveMinusSf ==
    (Decided /\ WellFormedWindow /\ LegalSf)
        => /\ dec.idx = 12 - sf
           /\ StagedCmd.dataRate = 12 - dec.spreadingFactor

\* The history of the example: historyRange packets, each reported by one
\* gateway at -80 dBm.
ExampleHistory ==
    /\ Len(packetList) = historyRange
    /\ \A i \in 1 .. Len(packetList) : packetList[i] = <<-80>>

\* C5 (as claimed): in the example (spreading factor 7, transmission power
\* 14 dBm) the decision computes 11 steps and the staged command carries data
\* rate 5 and transmission power 2 dBm.
C5_ExampleResult ==
    (Decided /\ ExampleHistory /\ sf = min_spreadingFactor /\ txPower = max_transmissionPower)
        => /\ dec.steps = 11
           /\ StagedCmd.dataRate = 5
           /\ StagedCmd.txPower = min_transmissionPower

\* The history with every reported power raised by c dB.
Raised(pl, c) == [i \in 1 .. Len(pl) |-> [g \in 1 .. Len(pl[i]) |-> pl[i][g] + c]]

\* The SNR estimate of one packet.
PacketSNR(gwList) == TxPowerToSNR(GetReceivedPower(gwList))

\* Every per-packet SNR estimate of the window of history r is that of
\* history pl raised by c.
RaisesEverySNR(pl, r, c) ==
    \A i \in Window :
        PacketSNR(PacketAt(r, i)) = FAdd(PacketSNR(PacketAt(pl, i)), c * Scale)

\* C6: on the same snapshot, raising every per-packet SNR estimate by c > 0
\* never yields a higher final spreading factor or transmission power.
C6_Monotone ==
    (Decided /\ LegalSf) =>
        LET e0 == EstimatedSNR(packetList)
        IN  /\ dec.m_SNR = e0
            /\ \A c \in Shifts :
                  LET r  == Raised(packetList, c)
                      e1 == EstimatedSNR(r)
                  IN  /\ RaisesEverySNR(packetList, r, c)
                      /\ \A ub \in UbOutcomes :
                            LET d0 == AdrDecision(e0, sf, txPower, ub)
                                d1 == AdrDecision(e1, sf, txPower, ub)
                            IN  /\ d1.spreadingFactor <= d0.spreadingFactor
                                /\ d1.newTxPower <= d0.newTxPower

\* C6 witness: a decided snapshot on which some raise strictly lowers the
\* final transmission power or spreading factor.
C6_Witness ==
    /\ Decided
    /\ LegalSf
    /\ \E c \in Shifts, ub \in UbOutcomes :
          LET d0 == AdrImplementation(packetList, sf, txPower, ub)
              d1 == AdrImplementation(Raised(packetList, c), sf, txPower, ub)
          IN  /\ d0 = dec
              /\ (d1.newTxPower < d0.newTxPower \/ d1.spreadingFactor < d0.spreadingFactor)

\* C7 (as claimed): when a packet of the window has no gateway report, its
\* received power is still a defined value (no division by zero), and so is
\* the estimate the decision is taken on.
C7_EmptyGatewayListDefined ==
    (Decided /\ ~WellFormedWindow /\ LegalSf) =>
        /\ \A i \in Window : GetReceivedPower(PacketAt(packetList, i)) # NaN
        /\ dec.m_SNR # NaN

\* C8: in every cycle at most one LinkAdrReq is staged on the device, and only
\* if the uplink of the cycle had the ADR bit set.
C8_AtMostOneCommandPerCycle ==
    /\ Len(reply.cmds) <= 1
    /\ Len(reply.cmds) = 1 => adr

\* C8 witness: a cycle that staged a command has ended, after an earlier cycle.
C8_Witness ==
    /\ pc = "idle"
    /\ cycles >= 2
    /\ Len(reply.cmds) = 1

\* C9 (as claimed): the lookup of the required SNR never indexes the table
\* outside 0..5.
C9_IndexInTable ==
    (Decided /\ WellFormedWindow) => dec.idx \in 0 .. 5

\* What C10 says of one run of the step policy from (sf, txPower).
OrderedAsymmetric(steps, finalSf, finalTp) ==
    /\ finalSf <= sf
    /\ steps > 0 => (finalTp <= txPower /\ (finalTp < txPower => finalSf = min_spreadingFactor))
    /\ steps < 0 => (finalSf = sf /\ finalTp >= txPower)
    /\ steps = 0 => (finalSf = sf /\ finalTp = txPower)

\* C10: the spreading factor is never raised; positive steps lower the
\* transmission power only once the spreading factor is at its minimum and
\* never raise it; negative steps leave the spreading factor and only raise the
\* transmission power; zero steps change nothing.
C10_OrderedAsymmetric ==
    LegalSf =>
        /\ \A s \in (0 - MaxSteps) .. MaxSteps :
              LET f == StepPolicy(s, sf, txPower)
              IN  OrderedAsymmetric(s, f.spreadingFactor, f.transmissionPower)
        /\ Decided => OrderedAsymmetric(dec.steps, dec.spreadingFactor, dec.newTxPower)

\* C10 witness: a decision from a spreading factor above the minimum that used
\* up the spreading factor and then lowered the transmission power.
C10_Witness ==
    /\ Decided
    /\ sf \in (min_spreadingFactor + 1) .. 12
    /\ dec.steps > 0
    /\ dec.spreadingFactor = min_spreadingFactor
    /\ dec.newTxPower < txPower

====
